---- MODULE Spec2Model ----
(***************************************************************************)
(* Model of the Synchronization Layer of CoupleMap                          *)
(* (src/src/contexts/LocationContext.tsx): the Firestore documents it reads *)
(* and writes (users, connectionRequests), each signed-in client's React    *)
(* state (connections) and the asynchronous operations of the provider.     *)
(* Every `await` of the source is a yield point: one action is the store    *)
(* operation awaited plus the synchronous code that runs when it resumes,   *)
(* up to the next awaited store operation.                                   *)
(***************************************************************************)
EXTENDS Integers, Sequences, FiniteSets, TLC

VARIABLES
  reqs,         \* collection connectionRequests, in document-id order
  userDocs,     \* collection users: uid -> document
  displayName,  \* currentUser.displayName of each identity (auth profile)
  connections,  \* React state `connections` of each user's provider (peer ids)
  call,         \* the operation each client has in flight, with its locals
  dirty,        \* a snapshot of the user's document is due to its listener
  passes,       \* profile-snapshot handler runs awaiting their peer fetches
  notes,        \* collection connections, nickname / photo edits and their calls
  sampler,      \* the Location Sampler: tracking state, timers, samples
  search,       \* a searchUsersByEmail call: the store it reads, input, result
  session       \* each client's sign-in state and its two snapshot listeners

vars == <<reqs, userDocs, displayName, connections, call, dirty, passes,
          notes, sampler, search, session>>

\* the documents and client state of requests and connections
syncVars == <<reqs, userDocs, displayName, connections, call, dirty, passes>>

(* ------------------------------ bounds --------------------------------- *)

Users == {"a1", "b1", "c1"}

\* the two users who act where a third one only has a profile
Pair == {"a1", "b1"}

Names == {"n0", "n1"}

\* request documents that may exist at a time
MaxReq == 3

\* snapshot-handler runs of one client that may overlap
MaxPasses == 1

\* request documents that may exist at a time where calls overlap or users
\* rename themselves
MaxReqWide == 1

\* request documents that may exist at a time among three acting users
MaxReqTrio == 2

\* entries the local connections list may hold (it grows by one with every
\* accept that a snapshot has not yet replaced)
MaxLocal == 2

ReqIds == 1..MaxReq

(* --------------------------- identifiers ------------------------------- *)

\* What a user may type into the add-connection box: the e-mail address of a
\* user in lower case or with capitals, or an address nobody has.
IdentsOf(U) == [user : U \cup {"nobody"}, upper : BOOLEAN]

Idents == IdentsOf(Pair)

\* user.email as stored at sign-up (Firebase Auth keeps addresses lower-case)
Email(u) == [user |-> u, upper |-> FALSE]

\* String.prototype.toLowerCase
ToLowerCase(e) == [e EXCEPT !.upper = FALSE]

(* ----------------------------- documents ------------------------------- *)

\* addDoc gives a document a random id and a query returns its documents in
\* id order, so only the order of the ids is modelled: reqs lists the
\* documents that exist in id order, and a document is named by its place in
\* that list. A place beyond the list, or 0, names a document that does not
\* exist (an id never issued, or a deleted document).
Exists(i) == i \in DOMAIN reqs

\* the list with document d created at place pos
InsertAt(s, pos, d) ==
  [i \in 1..(Len(s) + 1) |-> IF i < pos THEN s[i] ELSE IF i = pos THEN d ELSE s[i - 1]]

\* the place, after a creation at pos, of the document that was at place i
Shift(i, pos) == IF i >= pos THEN i + 1 ELSE i

\* the place, after the deletion of the documents D, of the one at place i
Drop(i, D) == IF i \in D \/ i = 0 THEN 0 ELSE i - Cardinality({d \in D : d < i})

\* the list without the documents at the places D
DeleteAll(s, D) ==
  LET keep == {i \in DOMAIN s : i \notin D}
  IN  [k \in 1..Cardinality(keep) |-> s[CHOOSE i \in keep : Drop(i, D) = k]]

\* the user document written by signUp / loginWithGoogle
NewUserDoc == [exists |-> TRUE, hasEmail |-> TRUE, hasConns |-> TRUE, connections |-> <<>>]

\* userData.connections || []
ConnsOf(d) == IF d.exists /\ d.hasConns THEN d.connections ELSE <<>>

\* a duplicate check that never finds the peer
SomeNever(s, id) == FALSE

\* conns.some(conn => conn.id === id)
Some(s, id) == \E i \in DOMAIN s : s[i].id = id

\* Firestore arrayUnion: appends the element unless an equal element is there
ArrayUnion(s, x) == IF \E i \in DOMAIN s : s[i] = x THEN s ELSE Append(s, x)

\* a filter that drops nothing
FilterOutNone(s, id) == s

\* conns.filter(conn => conn.id !== id)
FilterOut(s, id) == SelectSeq(s, LAMBDA c : c.id # id)

\* prev.filter(conn => conn.id !== id) on the local list of peer ids
FilterLocal(s, id) == SelectSeq(s, LAMBDA c : c # id)

\* query(users, where('email', '==', e))
UsersByEmail(e) == {u \in Users : userDocs[u].exists /\ userDocs[u].hasEmail /\ Email(u) = e}

\* query(connectionRequests, where('fromId','==',f), where('toId','==',t))
ReqsBetween(f, t) == {i \in DOMAIN reqs : reqs[i].fromId = f /\ reqs[i].toId = t}

\* snapshot.docs[0]: query results come ordered by document id
First(S) == CHOOSE i \in S : \A j \in S : i <= j

\* a change of a user document reaches that user's onSnapshot listener
Touch(changed) == [u \in Users |-> dirty[u] \/ u \in changed]

(* ------------------------------ sessions ------------------------------- *)

\* a client whose user is signed in: the [currentUser] effect has subscribed
\* the profile listener and the request listener; released counts the calls
\* of each unsubscribe function since then
SignedIn ==
  [in |-> TRUE, profile |-> "on", requests |-> "on",
   released |-> [profile |-> 0, requests |-> 0]]

(* --------------------------- Location Sampler -------------------------- *)

\* interval timers that may be armed or referred to at a time
MaxTimers == 3

\* no state update queued: what setIsTracking / setTrackingInterval have
\* queued takes effect at the next render
Keep == [tracking |-> "keep", interval |-> -1]

\* no Dashboard is mounted
NoDash == [mounted |-> FALSE, isTracking |-> FALSE, interval |-> 0, user |-> "none"]

\* the provider as mounted: useState(false), useState(null), nobody signed
\* in; interval 0 is null. timers are the armed intervals, each with the
\* currentUser its updateLocation closure captured; samples are the
\* updateLocation calls in flight; dash is what the render that mounted the
\* Dashboard captured in startTrackingLocation / stopTrackingLocation.
\* currentLocation is the published fix (0 is null), stored the location
\* field of each profile (0: none written), outcome the handler that ran
\* last or, for a sample, how its step ended.
SamplerIdle ==
  [user |-> "none", isTracking |-> FALSE, interval |-> 0, pending |-> Keep,
   dash |-> NoDash, timers |-> {}, samples |-> {}, stopped |-> FALSE, geo |-> TRUE,
   currentLocation |-> 0, stored |-> [u \in Users |-> 0], outcome |-> "none"]

NoPending == sampler.pending = Keep

\* setInterval returns an id that no armed timer has and nothing refers to
FreeIds(s) ==
  {i \in 1..MaxTimers :
     /\ \A t \in s.timers : t.id # i
     /\ i \notin {s.interval, s.pending.interval, s.dash.interval}}

FreshId(s) == CHOOSE i \in FreeIds(s) : \A j \in FreeIds(s) : i <= j

\* a failure handler that also ends the tracking
FailedStops(s, why) ==
  [s EXCEPT !.outcome = why, !.timers = {}, !.isTracking = FALSE, !.interval = 0]

\* toast.error(...): the early return and the catch of updateLocation report
\* the failure and do nothing else
Failed(s, why) == [s EXCEPT !.outcome = why]

\* a fix that is not published
SetCurrentLocationNever(s, fix) == s

\* setCurrentLocation(locationData)
SetCurrentLocation(s, fix) == [s EXCEPT !.currentLocation = fix]

\* position.coords of a new fix: a value other than the one published
NewFix(s) == IF s.currentLocation = 1 THEN 2 ELSE 1

\* updateLocation() of a render whose currentUser was w, up to its await
\* getCurrentPosition; late marks a sample begun for a user not signed in
UpdateLocation(s, w) ==
  IF ~s.geo THEN Failed(s, "unsupported")
  ELSE [s EXCEPT !.samples = @ \cup
          {[user |-> w, pc |-> "position", late |-> (w # s.user), fix |-> 0]}]

\* startTrackingLocation() of a render that saw the state cl
StartTrackingLocation(s, cl) ==
  IF cl.isTracking THEN s
  ELSE LET id == FreshId(s)
           s1 == UpdateLocation(s, cl.user)
       IN  [s1 EXCEPT !.timers = @ \cup {[id |-> id, user |-> cl.user]},
                      !.pending = [tracking |-> "true", interval |-> id],
                      !.stopped = FALSE, !.outcome = "start"]

\* stopTrackingLocation() of a render that saw the state cl
StopTrackingLocation(s, cl) ==
  LET s1 == IF cl.interval # 0
            THEN [s EXCEPT !.timers = {t \in @ : t.id # cl.interval},
                           !.pending.interval = 0]
            ELSE s
  IN  [s1 EXCEPT !.pending.tracking = "false", !.stopped = TRUE, !.outcome = "stop"]

\* what the current render of the provider passes down
Current(s, w) == [isTracking |-> s.isTracking, interval |-> s.interval, user |-> w]

\* onAuthStateChanged(user): App renders the Dashboard, whose mount effect
\* calls updateLocation() and startTrackingLocation()
SignIn(w) ==
  /\ sampler.user = "none" /\ NoPending
  /\ FreeIds(sampler) # {}
  /\ LET cl == Current(sampler, w)
         s1 == [sampler EXCEPT !.user = w,
                  !.dash = [mounted |-> TRUE, isTracking |-> cl.isTracking,
                            interval |-> cl.interval, user |-> w]]
     IN  sampler' = StartTrackingLocation(UpdateLocation(s1, w), cl)
  /\ UNCHANGED <<syncVars, notes, search, session>>

\* the Sidebar button while it reads Start: onStartTracking of this render
ClickStart ==
  /\ sampler.dash.mounted /\ NoPending /\ ~sampler.isTracking
  /\ FreeIds(sampler) # {}
  /\ sampler' = StartTrackingLocation(sampler, Current(sampler, sampler.user))
  /\ UNCHANGED <<syncVars, notes, search, session>>

\* the Sidebar button while it reads Stop: onStopTracking of this render
ClickStop ==
  /\ sampler.dash.mounted /\ NoPending /\ sampler.isTracking
  /\ sampler' = StopTrackingLocation(sampler, Current(sampler, sampler.user))
  /\ UNCHANGED <<syncVars, notes, search, session>>

\* onAuthStateChanged(null): App unmounts the Dashboard, whose effect
\* cleanup calls the stopTrackingLocation of the render that mounted it; the
\* provider's [currentUser] effect runs setCurrentLocation(null)
SignOut ==
  /\ sampler.user # "none" /\ NoPending
  /\ sampler' = [StopTrackingLocation(sampler, sampler.dash) EXCEPT
                   !.user = "none", !.dash = NoDash, !.currentLocation = 0]
  /\ UNCHANGED <<syncVars, notes, search, session>>

\* the provider renders with the queued updates; when trackingInterval has
\* changed, the cleanup of the [trackingInterval] effect clears the former
Commit ==
  /\ ~NoPending
  /\ LET p == sampler.pending
         newInterval == IF p.interval = -1 THEN sampler.interval ELSE p.interval
         newTracking == IF p.tracking = "keep" THEN sampler.isTracking ELSE p.tracking = "true"
     IN  sampler' = [sampler EXCEPT
           !.isTracking = newTracking,
           !.interval = newInterval,
           !.pending = Keep,
           !.outcome = "render",
           !.timers = IF newInterval # sampler.interval /\ sampler.interval # 0
                      THEN {t \in @ : t.id # sampler.interval} ELSE @]
  /\ UNCHANGED <<syncVars, notes, search, session>>

\* an armed interval fires: the updateLocation it was armed with runs
Tick ==
  /\ \E t \in sampler.timers :
       sampler' = UpdateLocation([sampler EXCEPT !.outcome = "tick"], t.user)
  /\ UNCHANGED <<syncVars, notes, search, session>>

\* getCurrentPosition answers: setCurrentLocation; if (currentUser) the write
\* of users/<uid>.location is issued, else the call returns
SampleFix ==
  /\ \E m \in sampler.samples :
       /\ m.pc = "position"
       /\ LET fix == NewFix(sampler)
              s1 == SetCurrentLocation(sampler, fix)
          IN  sampler' = [s1 EXCEPT
                !.outcome = "fixed",
                !.samples = (@ \ {m}) \cup
                   (IF m.user # "none" THEN {[m EXCEPT !.pc = "write", !.fix = fix]} ELSE {})]
  /\ UNCHANGED <<syncVars, notes, search, session>>

\* getCurrentPosition fails (permission denied, timeout): the catch
SampleFixFails ==
  /\ \E m \in sampler.samples :
       /\ m.pc = "position"
       /\ sampler' = [Failed(sampler, "position") EXCEPT !.samples = @ \ {m}]
  /\ UNCHANGED <<syncVars, notes, search, session>>

\* await updateDoc(userDocRef, {location}) answers: return locationData
SampleWritten ==
  /\ \E m \in sampler.samples :
       /\ m.pc = "write"
       /\ sampler' = [sampler EXCEPT !.samples = @ \ {m}, !.outcome = "written",
                                     !.stored[m.user] = m.fix]
       /\ dirty' = Touch({m.user})
  /\ UNCHANGED <<reqs, userDocs, displayName, connections, call, passes>>
  /\ UNCHANGED <<notes, search, session>>

\* await updateDoc(userDocRef, {location}) rejects: the catch
SampleWriteFails ==
  /\ \E m \in sampler.samples :
       /\ m.pc = "write"
       /\ sampler' = [Failed(sampler, "write") EXCEPT !.samples = @ \ {m}]
  /\ UNCHANGED <<syncVars, notes, search, session>>

(* -------------------------- searchUsersByEmail ------------------------- *)

\* profile documents in the collection users when a search reads it
MaxProfiles == 7

\* .slice(0, 5)
SearchLimit == 5

\* email.length < 3
MinPartial == 3

\* a field a document does not have
Undefined == <<"undefined">>

\* Strings are sequences of characters; what a user may type into the box
Partials ==
  { <<>>, <<"a">>, <<"a", "b">>, <<"a", "b", "a">>, <<"A", "B", "a">>,
    <<"b", "a", "b">>, <<"b", "b", "b", "b">> }

\* the email and displayName a profile document may carry
ProfileKinds ==
  { [email |-> <<"a", "b", "a">>, displayName |-> <<"B", "b">>],
    [email |-> <<"b", "b", "b">>, displayName |-> <<"A", "B", "A">>],
    [email |-> <<"b", "b", "b">>, displayName |-> Undefined],
    [email |-> Undefined, displayName |-> <<"b", "a", "B", "a">>] }

\* currentUser.uid of the caller: a document id, or 0 when nobody is signed in
Callers == {0, 1, 4}

\* String.prototype.toLowerCase, character by character
LowerCh(ch) == IF ch = "A" THEN "a" ELSE IF ch = "B" THEN "b" ELSE ch

LowerCase(str) == [i \in DOMAIN str |-> LowerCh(str[i])]

\* String.prototype.includes
Includes(str, part) ==
  \E k \in 0..(Len(str) - Len(part)) : SubSeq(str, k + 1, k + Len(part)) = part

\* field?.toLowerCase().includes(email.toLowerCase())
FieldMatches(field, partial) ==
  field # Undefined /\ Includes(LowerCase(field), LowerCase(partial))

\* a slice that keeps the whole list
SliceAll(list, n) == list

\* Array.prototype.slice(0, n)
Slice(list, n) == SubSeq(list, 1, IF Len(list) < n THEN Len(list) ELSE n)

\* querySnapshot.docs.map(doc => ({id: doc.id, ...doc.data()})), in id order
DocsOf(store) ==
  [i \in DOMAIN store |-> [id |-> i, email |-> store[i].email, displayName |-> store[i].displayName]]

\* .filter(user => user.id !== currentUser.uid && (... || ...)).slice(0, 5)
SearchResults(store, caller, partial) ==
  Slice(SelectSeq(DocsOf(store),
          LAMBDA user : /\ user.id # caller
                        /\ \/ FieldMatches(user.email, partial)
                           \/ FieldMatches(user.displayName, partial)),
        SearchLimit)

\* no search made
NoSearch ==
  [store |-> <<>>, caller |-> 0, partial |-> <<>>, pc |-> "idle", result |-> <<>>]

\* the synchronous head of the call: the sign-in check and the length gate
SearchUsersByEmail ==
  /\ search.pc = "start"
  /\ search' =
       IF search.caller = 0 THEN [search EXCEPT !.pc = "err"]
       ELSE IF Len(search.partial) < MinPartial THEN [search EXCEPT !.pc = "done"]
       ELSE [search EXCEPT !.pc = "getDocs"]
  /\ UNCHANGED <<syncVars, notes, sampler, session>>

\* await getDocs(usersRef) answers: map, filter, slice, return
SearchGetDocs ==
  /\ search.pc = "getDocs"
  /\ search' = [search EXCEPT !.pc = "done",
       !.result = SearchResults(search.store, search.caller, search.partial)]
  /\ UNCHANGED <<syncVars, notes, sampler, session>>

\* await getDocs(usersRef) rejects: the catch logs and rethrows
SearchGetDocsFails ==
  /\ search.pc = "getDocs"
  /\ search' = [search EXCEPT !.pc = "err"]
  /\ UNCHANGED <<syncVars, notes, sampler, session>>

(* ------------------------ nickname / photo edits ----------------------- *)

\* photo URLs a user may give a connection
Photos == {"p0", "p1"}

\* an entry of the local list as the snapshot handler built it: no edit
NoEdit == [displayName |-> "none", photoURL |-> "none"]

NoEditCall == [op |-> "none", pc |-> "idle", peer |-> "none", value |-> "none"]

\* no document in the collection connections, no edit made or in flight;
\* location[u][p] is the location that u's local entry for p shows (0 is null)
NoNotes ==
  [docs  |-> [id \in Users |-> [exists |-> FALSE, displayName |-> "none", photoURL |-> "none"]],
   edits |-> [u \in Users |-> [p \in Users |-> NoEdit]],
   edit  |-> [u \in Users |-> NoEditCall],
   last  |-> [u \in Users |-> NoEditCall],
   location |-> [u \in Users |-> [p \in Users |-> 0]]]

\* setConnections(validConnections): the entries of u's local list are built
\* anew from the snapshot and the peers' profiles; an entry shows the
\* location that getDoc(connectionRef) found in the peer's profile, read here
\* as late as the run allows
Replaced(u) ==
  [notes EXCEPT !.edits[u] = [p \in Users |-> NoEdit],
                !.location[u] = [p \in Users |-> sampler.stored[p]]]

(* ------------------------------- calls --------------------------------- *)

NoIdent == [user |-> "nobody", upper |-> FALSE]

Idle == [op |-> "none", pc |-> "idle", err |-> "none", ident |-> NoIdent,
         peer |-> "none", rid |-> 0, acc |-> FALSE, was |-> "none",
         reqName |-> "none", myName |-> "none", fromExists |-> FALSE, fromHas |-> FALSE, toHas |-> FALSE,
         mine |-> <<>>, theirs |-> <<>>, otherExists |-> FALSE, del |-> {}]

\* the call returned (ok) or threw (err): its locals are gone, but for what an
\* accept found in the two profiles and the peer a remove was called with
Returned(c, err) ==
  [Idle EXCEPT !.op = c.op, !.pc = IF err = "none" THEN "ok" ELSE "err", !.err = err,
               !.acc = c.acc, !.fromHas = c.fromHas, !.toHas = c.toHas,
               !.peer = IF c.op = "remove" THEN c.peer ELSE "none"]

\* the call threw on its first check: the arguments it was given are kept
Refused(c, err) ==
  [Idle EXCEPT !.op = c.op, !.pc = "err", !.err = err,
               !.ident = c.ident, !.peer = c.peer, !.rid = c.rid, !.acc = c.acc]

Running(u) == call[u].pc \notin {"idle", "ok", "err"}

TypeOK ==
  /\ Len(reqs) <= MaxReq
  /\ \A i \in DOMAIN reqs : reqs[i].status \in {"pending", "accepted", "rejected"}
  /\ \A u \in Users : displayName[u] \in Names
  /\ \A u \in Users : Cardinality(passes[u]) <= MaxPasses

InitSync ==
  /\ reqs = <<>>
  /\ userDocs = [u \in Users |-> NewUserDoc]
  /\ displayName = [u \in Users |-> "n0"]
  /\ connections = [u \in Users |-> <<>>]
  /\ call = [u \in Users |-> Idle]
  /\ dirty = [u \in Users |-> TRUE]
  /\ passes = [u \in Users |-> {}]

Init ==
  /\ InitSync
  /\ notes = NoNotes
  /\ sampler = SamplerIdle
  /\ search = NoSearch
  /\ session = [u \in Users |-> SignedIn]

(* ----------------------- sendConnectionRequest ------------------------- *)

\* a self check that compares the identifier as typed
IsSelfExact(u, ident) == ident = Email(u)

\* emailOrId.toLowerCase() === currentUser.email?.toLowerCase()
IsSelf(u, ident) == ToLowerCase(ident) = ToLowerCase(Email(u))

\* the call up to the users query: the self check, then the recipient lookup
SendStart(u, ident) ==
  /\ call[u].pc = "idle"
  /\ LET c == [Idle EXCEPT !.op = "send", !.ident = ident]
         found == UsersByEmail(ToLowerCase(ident))
     IN  call' = [call EXCEPT ![u] =
           IF IsSelf(u, ident) THEN Refused(c, "SelfReference")
           ELSE IF found = {} THEN Refused(c, "NotFound")
           ELSE [c EXCEPT !.pc = "chkExisting", !.ident = NoIdent,
                          !.peer = CHOOSE r \in found : TRUE]]
  /\ UNCHANGED <<reqs, userDocs, displayName, connections, dirty, passes>>
  /\ UNCHANGED <<notes, sampler, search, session>>

\* what the first document of a query between two users makes the call throw
Refusal(S) ==
  IF S = {} THEN "none"
  ELSE IF reqs[First(S)].status = "pending" THEN "DuplicatePending"
  ELSE IF reqs[First(S)].status = "accepted" THEN "AlreadyConnected"
  ELSE "none"

\* getDocs(existingRequestQuery): a request from the caller to the recipient
SendChkExisting(u) ==
  /\ call[u].op = "send" /\ call[u].pc = "chkExisting"
  /\ LET c == call[u]
         e == Refusal(ReqsBetween(u, c.peer))
     IN  call' = [call EXCEPT ![u] =
           IF e # "none" THEN Returned(c, e) ELSE [c EXCEPT !.pc = "chkReciprocal"]]
  /\ UNCHANGED <<reqs, userDocs, displayName, connections, dirty, passes>>
  /\ UNCHANGED <<notes, sampler, search, session>>

\* getDocs(reciprocalRequestQuery): a request from the recipient to the caller
SendChkReciprocal(u) ==
  /\ call[u].op = "send" /\ call[u].pc = "chkReciprocal"
  /\ LET c == call[u]
         e == Refusal(ReqsBetween(c.peer, u))
     IN  call' = [call EXCEPT ![u] =
           IF e # "none" THEN Returned(c, e) ELSE [c EXCEPT !.pc = "add"]]
  /\ UNCHANGED <<reqs, userDocs, displayName, connections, dirty, passes>>
  /\ UNCHANGED <<notes, sampler, search, session>>

\* addDoc(requestsRef, {...status: 'pending'}) under a fresh auto id
SendAdd(u) ==
  /\ call[u].op = "send" /\ call[u].pc = "add"
  /\ Len(reqs) < MaxReq
  /\ \E pos \in 1..(Len(reqs) + 1) :
       /\ reqs' = InsertAt(reqs, pos,
            [fromId |-> u, toId |-> call[u].peer, status |-> "pending",
             fromName |-> displayName[u]])
       /\ call' = [v \in Users |->
            IF v = u THEN Returned(call[u], "none")
            ELSE [call[v] EXCEPT !.rid = Shift(@, pos), !.del = {Shift(d, pos) : d \in @}]]
  /\ UNCHANGED <<userDocs, displayName, connections, dirty, passes>>
  /\ UNCHANGED <<notes, sampler, search, session>>

(* --------------------- respondToConnectionRequest ---------------------- *)

\* a check of the request document that leaves out the recipient
RespondCheckExists(u, rid) == IF ~Exists(rid) THEN "NotFound" ELSE "none"

\* the checks on the request document read: it exists, the caller is its toId
RespondCheck(u, rid) ==
  IF ~Exists(rid) THEN "NotFound"
  ELSE IF reqs[rid].toId # u THEN "Unauthorized"
  ELSE "none"

\* getDoc(requestRef), then the existence and recipient checks
RespondStart(u, rid, accept) ==
  /\ call[u].pc = "idle"
  /\ accept => Len(connections[u]) < MaxLocal
  /\ LET c == [Idle EXCEPT !.op = "respond", !.rid = rid, !.acc = accept]
     IN  call' = [call EXCEPT ![u] =
           IF RespondCheck(u, rid) # "none" THEN Refused(c, RespondCheck(u, rid))
           ELSE [c EXCEPT !.pc = "setStatus", !.peer = reqs[rid].fromId,
                          !.reqName = reqs[rid].fromName, !.was = reqs[rid].status]]
  /\ UNCHANGED <<reqs, userDocs, displayName, connections, dirty, passes>>
  /\ UNCHANGED <<notes, sampler, search, session>>

\* a response that goes on to the two profiles whatever the answer
AfterStatusAlways(c) == [c EXCEPT !.pc = "getFrom"]

\* if (accept) {...}: an accept goes on to the two profiles, a reject returns
AfterStatus(c) == IF c.acc THEN [c EXCEPT !.pc = "getFrom"] ELSE Returned(c, "none")

\* updateDoc(requestRef, {status}); a reject returns here
RespondSetStatus(u) ==
  /\ call[u].op = "respond" /\ call[u].pc = "setStatus"
  /\ LET c == call[u]
     IN  IF ~Exists(c.rid)
         THEN \* updateDoc of a document that was deleted meanwhile rejects
              /\ call' = [call EXCEPT ![u] = Returned(c, "Transient")]
              /\ UNCHANGED reqs
         ELSE /\ reqs' = [reqs EXCEPT ![c.rid].status =
                            IF c.acc THEN "accepted" ELSE "rejected"]
              /\ call' = [call EXCEPT ![u] = AfterStatus(c)]
  /\ UNCHANGED <<userDocs, displayName, connections, dirty, passes>>
  /\ UNCHANGED <<notes, sampler, search, session>>

\* getDoc(fromUserRef)
RespondGetFrom(u) ==
  /\ call[u].op = "respond" /\ call[u].pc = "getFrom"
  /\ LET c == call[u]
         d == userDocs[c.peer]
     IN  call' = [call EXCEPT ![u] =
           [c EXCEPT !.pc = "getTo", !.fromExists = d.exists,
                     !.fromHas = Some(ConnsOf(d), u)]]
  /\ UNCHANGED <<reqs, userDocs, displayName, connections, dirty, passes>>
  /\ UNCHANGED <<notes, sampler, search, session>>

\* an accept that leaves the sender's profile alone
AfterReadsOneSide(c) ==
  IF ~c.fromExists THEN Returned(c, "UserDataNotFound")
  ELSE IF ~c.toHas THEN [c EXCEPT !.pc = "addTo"]
  ELSE Returned(c, "none")

\* where the accept goes once both profiles are read
AfterReads(c) ==
  IF ~c.fromExists THEN Returned(c, "UserDataNotFound")
  ELSE IF ~c.fromHas THEN [c EXCEPT !.pc = "addFrom"]
  ELSE IF ~c.toHas THEN [c EXCEPT !.pc = "addTo"]
  ELSE Returned(c, "none")

\* getDoc(toUserRef), the existence check and the two duplicate checks
RespondGetTo(u) ==
  /\ call[u].op = "respond" /\ call[u].pc = "getTo"
  /\ LET c == call[u]
         d == userDocs[u]
     IN  call' = [call EXCEPT ![u] =
           IF ~d.exists THEN Returned(c, "UserDataNotFound")
           ELSE AfterReads([c EXCEPT !.toHas = Some(ConnsOf(d), c.peer),
                                     !.myName = displayName[u]])]
  /\ UNCHANGED <<reqs, userDocs, displayName, connections, dirty, passes>>
  /\ UNCHANGED <<notes, sampler, search, session>>

\* updateDoc(fromUserRef, {connections: arrayUnion(fromConnectionObj)})
RespondAddFrom(u) ==
  /\ call[u].op = "respond" /\ call[u].pc = "addFrom"
  /\ LET c == call[u]
         d == userDocs[c.peer]
         new == ArrayUnion(ConnsOf(d), [id |-> u, name |-> c.myName])
     IN  IF ~d.exists
         THEN /\ call' = [call EXCEPT ![u] = Returned(c, "Transient")]
              /\ UNCHANGED <<userDocs, dirty>>
         ELSE /\ userDocs' = [userDocs EXCEPT ![c.peer].connections = new,
                                              ![c.peer].hasConns = TRUE]
              /\ dirty' = Touch(IF new # d.connections \/ ~d.hasConns THEN {c.peer} ELSE {})
              /\ call' = [call EXCEPT ![u] =
                   IF ~c.toHas THEN [c EXCEPT !.pc = "addTo"] ELSE Returned(c, "none")]
  /\ UNCHANGED <<reqs, displayName, connections, passes>>
  /\ UNCHANGED <<notes, sampler, search, session>>

\* updateDoc(toUserRef, {connections: arrayUnion(toConnectionObj)})
RespondAddTo(u) ==
  /\ call[u].op = "respond" /\ call[u].pc = "addTo"
  /\ LET c == call[u]
         d == userDocs[u]
         new == ArrayUnion(ConnsOf(d), [id |-> c.peer, name |-> c.reqName])
     IN  IF ~d.exists
         THEN /\ call' = [call EXCEPT ![u] = Returned(c, "Transient")]
              /\ UNCHANGED <<userDocs, dirty>>
         ELSE /\ userDocs' = [userDocs EXCEPT ![u].connections = new,
                                              ![u].hasConns = TRUE]
              /\ dirty' = Touch(IF new # d.connections \/ ~d.hasConns THEN {u} ELSE {})
              /\ call' = [call EXCEPT ![u] = [c EXCEPT !.pc = "appendLocal"]]
  /\ UNCHANGED <<reqs, displayName, connections, passes>>
  /\ UNCHANGED <<notes, sampler, search, session>>

\* setConnections(prev => [...prev, {id: requestData.fromId, ...}]), then return
RespondLocal(u) ==
  /\ call[u].op = "respond" /\ call[u].pc = "appendLocal"
  /\ connections' = [connections EXCEPT ![u] = Append(@, call[u].peer)]
  /\ notes' = [notes EXCEPT !.location[u][call[u].peer] = 0]
  /\ call' = [call EXCEPT ![u] = Returned(call[u], "none")]
  /\ UNCHANGED <<reqs, userDocs, displayName, dirty, passes>>
  /\ UNCHANGED <<sampler, search, session>>

(* --------------------------- removeConnection -------------------------- *)

\* connections.find(conn => conn.id === connectionId) on the React state
FindLocal(u, peer) == \E i \in DOMAIN connections[u] : connections[u][i] = peer

\* the lookup in the local list, then getDoc(currentUserRef)
RemoveStart(u, peer) ==
  /\ call[u].pc = "idle"
  /\ LET c == [Idle EXCEPT !.op = "remove", !.peer = peer]
         d == userDocs[u]
     IN  call' = [call EXCEPT ![u] =
           IF ~FindLocal(u, peer) THEN Refused(c, "NotFound")
           ELSE [c EXCEPT !.pc = "getOther", !.fromExists = d.exists,
                          !.mine = FilterOut(ConnsOf(d), peer)]]
  /\ UNCHANGED <<reqs, userDocs, displayName, connections, dirty, passes>>
  /\ UNCHANGED <<notes, sampler, search, session>>

\* getDoc(otherUserRef), then the check that the caller's document exists
RemoveGetOther(u) ==
  /\ call[u].op = "remove" /\ call[u].pc = "getOther"
  /\ LET c == call[u]
         d == userDocs[c.peer]
     IN  call' = [call EXCEPT ![u] =
           IF ~c.fromExists THEN Returned(c, "UserDataNotFound")
           ELSE [c EXCEPT !.pc = "writeSelf", !.otherExists = d.exists,
                          !.theirs = FilterOut(ConnsOf(d), u)]]
  /\ UNCHANGED <<reqs, userDocs, displayName, connections, dirty, passes>>
  /\ UNCHANGED <<notes, sampler, search, session>>

\* a remove that writes the peer's profile whether or not it was found
AfterWriteSelfAlways(c) == "writeOther"

\* if (otherUserDoc.exists()) {...}: a missing peer profile is skipped
AfterWriteSelf(c) == IF c.otherExists THEN "writeOther" ELSE "queryReqs"

\* updateDoc(currentUserRef, {connections: updatedConnections})
RemoveWriteSelf(u) ==
  /\ call[u].op = "remove" /\ call[u].pc = "writeSelf"
  /\ LET c == call[u]
         d == userDocs[u]
     IN  IF ~d.exists
         THEN /\ call' = [call EXCEPT ![u] = Returned(c, "Transient")]
              /\ UNCHANGED <<userDocs, dirty>>
         ELSE /\ userDocs' = [userDocs EXCEPT ![u].connections = c.mine,
                                              ![u].hasConns = TRUE]
              /\ dirty' = Touch(IF c.mine # d.connections \/ ~d.hasConns THEN {u} ELSE {})
              /\ call' = [call EXCEPT ![u] =
                   [c EXCEPT !.pc = AfterWriteSelf(c),
                             !.mine = <<>>]]
  /\ UNCHANGED <<reqs, displayName, connections, passes>>
  /\ UNCHANGED <<notes, sampler, search, session>>

\* updateDoc(otherUserRef, {connections: otherUserUpdatedConnections})
RemoveWriteOther(u) ==
  /\ call[u].op = "remove" /\ call[u].pc = "writeOther"
  /\ LET c == call[u]
         d == userDocs[c.peer]
     IN  IF ~d.exists
         THEN /\ call' = [call EXCEPT ![u] = Returned(c, "Transient")]
              /\ UNCHANGED <<userDocs, dirty>>
         ELSE /\ userDocs' = [userDocs EXCEPT ![c.peer].connections = c.theirs,
                                              ![c.peer].hasConns = TRUE]
              /\ dirty' = Touch(IF c.theirs # d.connections \/ ~d.hasConns
                                THEN {c.peer} ELSE {})
              /\ call' = [call EXCEPT ![u] = [c EXCEPT !.pc = "queryReqs", !.theirs = <<>>]]
  /\ UNCHANGED <<reqs, displayName, connections, passes>>
  /\ UNCHANGED <<notes, sampler, search, session>>

\* Promise.all([getDocs(q1), getDocs(q2)]): the requests in both directions
RemoveQuery(u) ==
  /\ call[u].op = "remove" /\ call[u].pc = "queryReqs"
  /\ call' = [call EXCEPT ![u] =
       [call[u] EXCEPT !.pc = "deleteReqs",
                       !.del = ReqsBetween(u, call[u].peer) \cup ReqsBetween(call[u].peer, u)]]
  /\ UNCHANGED <<reqs, userDocs, displayName, connections, dirty, passes>>
  /\ UNCHANGED <<notes, sampler, search, session>>

\* Promise.all(deletePromises): deleteDoc of every request found
RemoveDelete(u) ==
  /\ call[u].op = "remove" /\ call[u].pc = "deleteReqs"
  /\ LET D == call[u].del
     IN  /\ reqs' = DeleteAll(reqs, D)
         /\ call' = [v \in Users |->
              IF v = u THEN [call[u] EXCEPT !.pc = "dropLocal", !.del = {}]
              ELSE [call[v] EXCEPT !.rid = Drop(@, D), !.del = {Drop(d, D) : d \in @} \ {0}]]
  /\ UNCHANGED <<userDocs, displayName, connections, dirty, passes>>
  /\ UNCHANGED <<notes, sampler, search, session>>

\* setConnections(prev => prev.filter(conn => conn.id !== connectionId)), then return
RemoveLocal(u) ==
  /\ call[u].op = "remove" /\ call[u].pc = "dropLocal"
  /\ connections' = [connections EXCEPT ![u] = FilterLocal(@, call[u].peer)]
  /\ call' = [call EXCEPT ![u] = Returned(call[u], "none")]
  /\ UNCHANGED <<reqs, userDocs, displayName, dirty, passes>>
  /\ UNCHANGED <<notes, sampler, search, session>>

\* the caller's handler (toast, dialog close) has run: the client is idle again
Ack(u) ==
  /\ call[u].pc \in {"ok", "err"}
  /\ call' = [call EXCEPT ![u] = Idle]
  /\ UNCHANGED <<reqs, userDocs, displayName, connections, dirty, passes>>
  /\ UNCHANGED <<notes, sampler, search, session>>

(* --------------------------- updateUserProfile ------------------------- *)

\* updateProfile(currentUser, profile), then setDoc(users/uid, {displayName,
\* photoURL}, {merge: true}): the document is created when it is missing
UpdateUserProfile(u, name) ==
  /\ call[u].pc = "idle"
  /\ name # displayName[u]
  /\ displayName' = [displayName EXCEPT ![u] = name]
  /\ userDocs' = [userDocs EXCEPT ![u] =
       IF @.exists THEN @
       ELSE [exists |-> TRUE, hasEmail |-> FALSE, hasConns |-> FALSE, connections |-> <<>>]]
  /\ dirty' = Touch({u})
  /\ UNCHANGED <<reqs, connections, call, passes>>
  /\ UNCHANGED <<notes, sampler, search, session>>

(* ------------------------- missing profiles --------------------------- *)

\* A profile document disappears from the store. No operation of the
\* application deletes one; the operations are written for the case
\* (docSnapshot.exists(), otherUserDoc.exists()), which this brings about.
ProfileLost(u) ==
  /\ userDocs[u].exists
  /\ userDocs' = [userDocs EXCEPT ![u] =
       [exists |-> FALSE, hasEmail |-> FALSE, hasConns |-> FALSE, connections |-> <<>>]]
  /\ dirty' = Touch({u})
  /\ UNCHANGED <<reqs, displayName, connections, call, passes>>
  /\ UNCHANGED <<notes, sampler, search, session>>

(* ------------------- profile onSnapshot handler ------------------------ *)

\* userData.connections.map(...) keeps the order and the id of every entry
IdsOf(s) == [i \in DOMAIN s |-> s[i].id]

\* the listener fires: the handler runs up to its first await
DeliverSnapshot(u) ==
  /\ dirty[u]
  /\ dirty' = [dirty EXCEPT ![u] = FALSE]
  /\ LET d == userDocs[u]
     IN  IF ~d.exists
         THEN \* setConnections([])
              /\ connections' = [connections EXCEPT ![u] = <<>>]
              /\ notes' = Replaced(u)
              /\ UNCHANGED passes
         ELSE IF d.hasConns /\ d.connections = <<>>
         THEN \* Promise.all of no fetch resolves before any other callback
              \* runs: setConnections([])
              /\ connections' = [connections EXCEPT ![u] = <<>>]
              /\ notes' = Replaced(u)
              /\ UNCHANGED passes
         ELSE IF d.hasConns
         THEN \* await Promise.all(userData.connections.map(getDoc ...))
              /\ Cardinality(passes[u]) < MaxPasses
              /\ passes' = [passes EXCEPT ![u] =
                   @ \cup {[kind |-> "resolve", ids |-> IdsOf(d.connections), failed |-> {}]}]
              /\ UNCHANGED <<connections, notes>>
         ELSE \* await updateDoc(userRef, {connections: []})
              /\ Cardinality(passes[u]) < MaxPasses
              /\ passes' = [passes EXCEPT ![u] = @ \cup {[kind |-> "init", ids |-> <<>>, failed |-> {}]}]
              /\ UNCHANGED <<connections, notes>>
  /\ UNCHANGED <<reqs, userDocs, displayName, call>>
  /\ UNCHANGED <<sampler, search, session>>

\* getDoc(connectionRef) of one peer of a run throws: the catch returns null
FetchFails(u) ==
  /\ \E p \in passes[u] : \E i \in DOMAIN p.ids :
       /\ p.kind = "resolve"
       /\ p.ids[i] \notin p.failed
       /\ passes' = [passes EXCEPT ![u] =
            (@ \ {p}) \cup {[p EXCEPT !.failed = @ \cup {p.ids[i]}]}]
  /\ UNCHANGED <<reqs, userDocs, displayName, connections, call, dirty>>
  /\ UNCHANGED <<notes, sampler, search, session>>

\* a run that gives up the whole list when one fetch has failed
ResolvedAllOrNothing(ids, failed) ==
  IF \E i \in DOMAIN ids : ids[i] \in failed THEN <<>> ELSE ids

\* connectionsWithLocations.filter(conn => conn !== null)
Resolved(ids, failed) == SelectSeq(ids, LAMBDA id : id \notin failed)

\* every peer fetch of a run has answered: setConnections(validConnections)
FinishPass(u) ==
  /\ \E p \in passes[u] :
       /\ p.kind = "resolve"
       /\ connections' = [connections EXCEPT ![u] = Resolved(p.ids, p.failed)]
       /\ passes' = [passes EXCEPT ![u] = @ \ {p}]
  /\ UNCHANGED <<reqs, userDocs, displayName, call, dirty>>
  /\ notes' = Replaced(u)
  /\ UNCHANGED <<sampler, search, session>>

\* updateDoc(userRef, {connections: []}) of a run that saw no connections
\* field, then setConnections([])
InitConnections(u) ==
  /\ \E p \in passes[u] :
       /\ p.kind = "init"
       /\ userDocs[u].exists
       /\ userDocs' = [userDocs EXCEPT ![u].connections = <<>>, ![u].hasConns = TRUE]
       /\ connections' = [connections EXCEPT ![u] = <<>>]
       /\ passes' = [passes EXCEPT ![u] = @ \ {p}]
       /\ dirty' = Touch({u})
  /\ UNCHANGED <<reqs, displayName, call>>
  /\ notes' = Replaced(u)
  /\ UNCHANGED <<sampler, search, session>>

(* ------------- updateConnectionNickname / updateConnectionPhoto -------- *)

\* the field of the document and of the local entry that an edit sets
FieldOf(op) == IF op = "nickname" THEN "displayName" ELSE "photoURL"

\* the call checks currentUser and issues updateDoc(doc(db,'connections',id))
EditStart(u, op, peer, value) ==
  /\ notes.edit[u].pc = "idle"
  /\ notes' = [notes EXCEPT !.edit[u] =
       [op |-> op, pc |-> "update", peer |-> peer, value |-> value]]
  /\ UNCHANGED <<syncVars, sampler, search, session>>

\* await updateDoc(connectionRef, {...}) answers. It rejects when the
\* document does not exist and the call rethrows; else the document's field
\* is set and setConnections(prev => prev.map(...)) sets the field of the
\* local entry of that peer, if the list has one. last keeps the latest
\* successful edit of a reference the caller's stored profile held.
EditUpdate(u) ==
  /\ notes.edit[u].pc = "update"
  /\ LET c == notes.edit[u]
         f == FieldOf(c.op)
     IN  IF notes.docs[c.peer].exists
         THEN notes' = [notes EXCEPT
                !.docs[c.peer][f] = c.value,
                !.edits[u][c.peer][f] =
                   IF \E i \in DOMAIN connections[u] : connections[u][i] = c.peer
                   THEN c.value ELSE @,
                !.edit[u].pc = "ok",
                !.last[u] =
                   IF Some(ConnsOf(userDocs[u]), c.peer)
                   THEN [c EXCEPT !.pc = "ok"] ELSE @]
         ELSE notes' = [notes EXCEPT !.edit[u].pc = "err"]
  /\ UNCHANGED <<syncVars, sampler, search, session>>

\* the caller has seen the outcome
EditAck(u) ==
  /\ notes.edit[u].pc \in {"ok", "err"}
  /\ notes' = [notes EXCEPT !.edit[u] = NoEditCall]
  /\ UNCHANGED <<syncVars, sampler, search, session>>

\* No code of the application creates a document in the collection
\* connections; one can only come from outside it (console, another client
\* of the project).
ConnectionDocCreated(id) ==
  /\ ~notes.docs[id].exists
  /\ notes' = [notes EXCEPT !.docs[id].exists = TRUE]
  /\ UNCHANGED <<syncVars, sampler, search, session>>

\* the field of the reference to p in the stored profile d of a user: a
\* stored reference is {id, displayName, email}
StoredField(d, p, f) ==
  LET s == ConnsOf(d)
  IN  IF f = "displayName" /\ Some(s, p)
      THEN s[CHOOSE i \in DOMAIN s : s[i].id = p].name
      ELSE "none"

\* photoURL of a profile, as signUp wrote it (user.photoURL, null)
ProfilePhoto(p) == "none"

\* what the local entry of u for p shows in field f: the edit made since the
\* entry was built, else connection.displayName of the snapshot or
\* connectionData.photoURL of the peer's profile
Shown(n, d, u, p, f) ==
  IF n.edits[u][p][f] # "none" THEN n.edits[u][p][f]
  ELSE IF f = "displayName" THEN StoredField(d, p, f)
  ELSE ProfilePhoto(p)

(* ----------------------- the [currentUser] effect ---------------------- *)

\* currentUser becomes null: the cleanup of the effect calls unsubscribeUser()
\* and unsubscribeRequests(); the effect runs again and, without a user,
\* setConnections([]), setConnectionRequests([]), setCurrentLocation(null).
\* Handler runs and operations in flight are not told.
UserSignsOut(u) ==
  /\ session[u].in
  /\ session' = [session EXCEPT ![u] =
       [in |-> FALSE, profile |-> "off", requests |-> "off",
        released |-> [profile |-> @.released.profile + 1,
                      requests |-> @.released.requests + 1]]]
  /\ connections' = [connections EXCEPT ![u] = <<>>]
  /\ notes' = Replaced(u)
  /\ UNCHANGED <<reqs, userDocs, displayName, call, dirty, passes, sampler, search>>

\* currentUser becomes a user: the effect subscribes both listeners, and each
\* onSnapshot delivers a first snapshot
UserSignsIn(u) ==
  /\ ~session[u].in
  /\ session' = [session EXCEPT ![u] = SignedIn]
  /\ dirty' = [dirty EXCEPT ![u] = TRUE]
  /\ UNCHANGED <<reqs, userDocs, displayName, connections, call, passes, notes, sampler, search>>

\* the stored profile of a holds a ConnectionReference to b
HasRef(a, b) == Some(ConnsOf(userDocs[a]), b)

\* a request between a and b, in either direction, is pending
PendingBetween(a, b) ==
  \E i \in ReqsBetween(a, b) \cup ReqsBetween(b, a) : reqs[i].status = "pending"

(* ------------------------- a peer's location --------------------------- *)

\* updateDoc(userRef, {location: {...}}) of a sample taken in p's own
\* browser: the location field of p's profile takes a new value, and the
\* listener of that profile, which is p's, is notified
PeerUpdateLocation(p) ==
  /\ userDocs[p].exists
  /\ sampler' = [sampler EXCEPT !.stored[p] = IF @ = 1 THEN 2 ELSE 1]
  /\ dirty' = Touch({p})
  /\ UNCHANGED <<reqs, userDocs, displayName, connections, call, passes>>
  /\ UNCHANGED <<notes, search, session>>

(* --------------------------- specifications ---------------------------- *)

\* no operation of any client is in flight
Quiescent == \A u \in Users : ~Running(u)

AllIdle == \A u \in Users : call[u].pc = "idle"

\* a client starts a call; no send starts once maxReq requests exist
StartCall(u, maxReq) ==
  \/ \E ident \in Idents : Len(reqs) < maxReq /\ SendStart(u, ident)
  \/ \E rid \in ReqIds, accept \in BOOLEAN : RespondStart(u, rid, accept)
  \/ \E peer \in Pair \ {u} : RemoveStart(u, peer)

StepCall(u) ==
  \/ SendChkExisting(u) \/ SendChkReciprocal(u) \/ SendAdd(u)
  \/ RespondSetStatus(u) \/ RespondGetFrom(u) \/ RespondGetTo(u)
  \/ RespondAddFrom(u) \/ RespondAddTo(u) \/ RespondLocal(u)
  \/ RemoveGetOther(u) \/ RemoveWriteSelf(u) \/ RemoveWriteOther(u)
  \/ RemoveQuery(u) \/ RemoveDelete(u) \/ RemoveLocal(u)
  \/ Ack(u)

Listener(u) == DeliverSnapshot(u) \/ FinishPass(u)

\* Calls are issued one at a time (each completes before the next starts);
\* the snapshot listeners still run asynchronously.
SeqStart == AllIdle /\ \E u \in Pair : StartCall(u, MaxReq)

SeqNext == SeqStart \/ \E u \in Pair : StepCall(u) \/ Listener(u)

SeqSpec == Init /\ [][SeqNext]_vars

\* The same, with users who also edit their display name.
ProfileStart ==
  AllIdle /\ \E u \in Pair : StartCall(u, MaxReqWide) \/ \E name \in Names : UpdateUserProfile(u, name)

ProfileNext == ProfileStart \/ \E u \in Pair : StepCall(u) \/ Listener(u)

ProfileSpec == Init /\ [][ProfileNext]_vars

\* Three users: a1 addresses and removes the two others, who answer its
\* requests; calls are issued one at a time.
TrioStartCall(u) ==
  \/ /\ u = "a1"
     /\ \/ \E ident \in IdentsOf(Users) : Len(reqs) < MaxReqTrio /\ SendStart(u, ident)
        \/ \E peer \in Users \ {u} : RemoveStart(u, peer)
  \/ /\ u # "a1"
     /\ \E rid \in ReqIds, accept \in BOOLEAN : RespondStart(u, rid, accept)

TrioStart == AllIdle /\ \E u \in Users : TrioStartCall(u)

TrioNext == TrioStart \/ \E u \in Users : StepCall(u) \/ Listener(u)

TrioSpec == Init /\ [][TrioNext]_vars

\* Calls issued one at a time in a store that may lose a profile document
\* between two calls.
LossStart ==
  AllIdle /\ \E u \in Pair : StartCall(u, MaxReqWide) \/ ProfileLost(u)

LossNext == LossStart \/ \E u \in Pair : StepCall(u) \/ Listener(u)

LossSpec == Init /\ [][LossNext]_vars

\* Three users who connect (a1 sends, the others accept), with peer fetches
\* of the resolution passes that may fail.
FaultStartCall(u) ==
  \/ /\ u = "a1"
     /\ \E ident \in IdentsOf(Users) : Len(reqs) < MaxReqTrio /\ SendStart(u, ident)
  \/ /\ u # "a1"
     /\ \E rid \in ReqIds : RespondStart(u, rid, TRUE)

FaultStep(u) ==
  \/ SendChkExisting(u) \/ SendChkReciprocal(u) \/ SendAdd(u)
  \/ RespondSetStatus(u) \/ RespondGetFrom(u) \/ RespondGetTo(u)
  \/ RespondAddFrom(u) \/ RespondAddTo(u) \/ RespondLocal(u)
  \/ Ack(u)

FaultStart == AllIdle /\ \E u \in Users : FaultStartCall(u)

FaultNext ==
  FaultStart \/ \E u \in Users : FaultStep(u) \/ Listener(u) \/ FetchFails(u)

FaultSpec == Init /\ [][FaultNext]_vars

\* Two users who connect and then edit the nickname and the photo of their
\* connection; calls are issued one at a time.
NotesIdle == \A u \in Users : notes.edit[u].pc = "idle"

NoteStartCall(u) ==
  \/ \E ident \in Idents : Len(reqs) < MaxReqWide /\ SendStart(u, ident)
  \/ \E rid \in ReqIds : RespondStart(u, rid, TRUE)
  \/ \E peer \in Pair \ {u} :
       \/ \E name \in Names : EditStart(u, "nickname", peer, name)
       \/ \E url \in Photos : EditStart(u, "photo", peer, url)

NoteStart == AllIdle /\ NotesIdle /\ \E u \in Pair : NoteStartCall(u)

NoteNext ==
  \/ NoteStart
  \/ \E u \in Pair : FaultStep(u) \/ Listener(u) \/ EditUpdate(u) \/ EditAck(u)
  \/ \E id \in Pair : ConnectionDocCreated(id)

NoteSpec == Init /\ [][NoteNext]_vars

\* Two users who connect and sign out and in again; a signed-out client
\* starts no operation and its listeners deliver nothing, but what it had in
\* flight goes on.
OutStartCall(u) ==
  \/ \E ident \in Idents : Len(reqs) < MaxReqWide /\ SendStart(u, ident)
  \/ \E rid \in ReqIds : RespondStart(u, rid, TRUE)

OutStart == AllIdle /\ \E u \in Pair : session[u].in /\ OutStartCall(u)

OutListener(u) == (session[u].profile = "on" /\ DeliverSnapshot(u)) \/ FinishPass(u)

OutNext ==
  \/ OutStart
  \/ \E u \in Pair : FaultStep(u) \/ OutListener(u) \/ UserSignsOut(u) \/ UserSignsIn(u)

OutSpec == Init /\ [][OutNext]_vars

\* One browser in which a user signs in and out, starts and stops the
\* tracking, while the timers fire; the browser may lack geolocation.
TrackInit ==
  /\ InitSync
  /\ notes = NoNotes
  /\ search = NoSearch
  /\ session = [u \in Users |-> SignedIn]
  /\ \E g \in BOOLEAN : sampler = [SamplerIdle EXCEPT !.geo = g]

TrackNext ==
  \/ SignIn("a1")
  \/ ClickStart \/ ClickStop \/ SignOut \/ Commit
  \/ Tick \/ SampleFix \/ SampleFixFails \/ SampleWritten \/ SampleWriteFails

TrackSpec == TrackInit /\ [][TrackNext]_vars

\* One search call, from its start to its return.
\* a call about to run: any store, any caller, any input
SearchInit ==
  /\ InitSync
  /\ notes = NoNotes
  /\ sampler = SamplerIdle
  /\ session = [u \in Users |-> SignedIn]
  /\ search \in [store : [1..MaxProfiles -> ProfileKinds], caller : Callers,
                 partial : Partials, pc : {"start"}, result : {<<>>}]

SearchNext == SearchUsersByEmail \/ SearchGetDocs \/ SearchGetDocsFails

SearchSpec == SearchInit /\ [][SearchNext]_vars

\* Three users: a1 addresses the two others and removes b1 while they accept
\* its requests. The calls of a1 and b1 follow one another; those of c1 run
\* concurrently with them.
ThirdIdents == {[user |-> p, upper |-> FALSE] : p \in Users \ {"a1"}}

ThirdStartCall(u) ==
  \/ /\ u = "a1" /\ call["b1"].pc = "idle"
     /\ \/ \E ident \in ThirdIdents : Len(reqs) < MaxReqTrio /\ SendStart(u, ident)
        \/ RemoveStart(u, "b1")
  \/ /\ u = "b1" /\ AllIdle
     /\ \E rid \in ReqIds : RespondStart(u, rid, TRUE)
  \/ /\ u = "c1"
     /\ \E rid \in ReqIds : RespondStart(u, rid, TRUE)

ThirdNext ==
  \/ \E u \in Users : ThirdStartCall(u) \/ StepCall(u)
  \/ Listener("a1")

ThirdSpec == Init /\ [][ThirdNext]_vars

\* Two users who connect while samples of their own browsers overwrite the
\* location of their profiles; calls are issued one at a time.
PlaceStart == AllIdle /\ \E u \in Pair : OutStartCall(u)

PlaceNext ==
  \/ PlaceStart
  \/ \E u \in Pair : FaultStep(u) \/ Listener(u) \/ PeerUpdateLocation(u)

PlaceSpec == Init /\ [][PlaceNext]_vars

\* Clients run concurrently: the calls of different users interleave at every
\* await.
Next == \E u \in Pair : StartCall(u, MaxReqWide) \/ StepCall(u) \/ Listener(u)

Spec == Init /\ [][Next]_vars

(* ------------------------------- claims -------------------------------- *)

\* a call of u that was in flight returns or throws in this step
Completes(u) == Running(u) /\ call'[u].pc \in {"ok", "err"}

\* a's stored profile holds a reference to b after this step
HasRefNext(a, b) == Some(ConnsOf(userDocs'[a]), b)

\* u starts a call of the operation op in this step
Starts(u, op) == call[u].pc = "idle" /\ call'[u].op = op

\* C1: once every in-flight call has completed, a's stored connection set
\* holds a reference to b if and only if b's holds one to a.
C1_Symmetry == Quiescent => \A a, b \in Users : HasRef(a, b) <=> HasRef(b, a)

C3_TerminalStatus ==
  [][\A i \in DOMAIN reqs :
       (Len(reqs') = Len(reqs) /\ reqs[i].status \in {"accepted", "rejected"})
       => reqs'[i].status = reqs[i].status]_vars

\* C4: a send between two users who have a pending request in either
\* direction fails with DuplicatePending and creates no request.
C4_DuplicatePendingRefused ==
  [][\A u \in Users :
       (Completes(u) /\ call[u].op = "send" /\ PendingBetween(u, call[u].peer))
       => (call'[u].err = "DuplicatePending" /\ reqs' = reqs)]_vars

\* C5: a send to a user the caller's stored profile already holds a reference
\* to fails with AlreadyConnected and creates no request.
C5_AlreadyConnectedRefused ==
  [][\A u \in Users :
       (Completes(u) /\ call[u].op = "send" /\ HasRef(u, call[u].peer))
       => (call'[u].err = "AlreadyConnected" /\ reqs' = reqs)]_vars

\* C6: a send whose identifier resolves to the caller's own profile fails with
\* SelfReference and goes no further; no request has fromId equal to toId and
\* no stored profile holds a reference to itself.
C6_SelfReference ==
  /\ \A u \in Users :
       /\ (call[u].op = "send" /\ call[u].ident.user = u)
            => (call[u].pc = "err" /\ call[u].err = "SelfReference")
       /\ (call[u].op = "send" /\ Running(u)) => call[u].peer # u
       /\ ~HasRef(u, u)
  /\ \A i \in DOMAIN reqs : reqs[i].fromId # reqs[i].toId

\* a user typed the own address with capitals and the send was refused, while
\* a request and a connection between two users exist
C6_Witness ==
  /\ \E u \in Users :
       /\ call[u].op = "send" /\ call[u].err = "SelfReference"
       /\ call[u].ident = [user |-> u, upper |-> TRUE]
  /\ reqs # <<>>
  /\ \E a, b \in Users : HasRef(a, b)

\* C7: a response to a request id that does not exist throws NotFound and one
\* by a caller who is not the request's toId throws Unauthorized, neither
\* changing a request or a profile; a status only changes in a response of
\* the request's recipient.
C7_OnlyRecipientResponds ==
  [][/\ \A u \in Users :
          Starts(u, "respond") =>
            /\ ~Exists(call'[u].rid) => call'[u].err = "NotFound"
            /\ (Exists(call'[u].rid) /\ reqs[call'[u].rid].toId # u)
                 => call'[u].err = "Unauthorized"
            /\ call'[u].pc = "err" => (reqs' = reqs /\ userDocs' = userDocs)
     /\ \A i \in DOMAIN reqs :
          (Len(reqs') = Len(reqs) /\ reqs'[i].status # reqs[i].status)
          => LET c == call[reqs[i].toId]
             IN  c.op = "respond" /\ c.pc = "setStatus" /\ c.rid = i]_vars

\* a user who is not the recipient of an existing request tried to respond
C7_Witness ==
  \E u \in Users :
    /\ call[u].op = "respond" /\ call[u].err = "Unauthorized"
    /\ Exists(call[u].rid) /\ reqs[call[u].rid].toId # u
    /\ reqs[call[u].rid].status = "pending"

\* C8: a reject of a pending request sets its status to rejected, and no step
\* of the call changes a stored connection set or the caller's local list.
C8_RejectCreatesNothing ==
  [][\A u \in Users :
       /\ (Starts(u, "respond") /\ ~call'[u].acc)
            => (reqs' = reqs /\ userDocs' = userDocs /\ connections' = connections)
       /\ (call[u].op = "respond" /\ ~call[u].acc /\ Running(u) /\ call'[u] # call[u]
             /\ call[u].was = "pending")
            => /\ call'[u].pc = "ok"
               /\ reqs'[call[u].rid].status = "rejected"
               /\ userDocs' = userDocs
               /\ connections' = connections]_vars

\* a reject has returned and left a rejected request, with nobody connected
C8_Witness ==
  \E u \in Users : \E i \in DOMAIN reqs :
    /\ call[u].op = "respond" /\ call[u].pc = "ok" /\ ~call[u].acc
    /\ reqs[i].toId = u /\ reqs[i].status = "rejected"
    /\ ~HasRef(u, reqs[i].fromId) /\ ~HasRef(reqs[i].fromId, u)

C10_OptimisticLocalUpdate ==
  [][\A u \in Users :
       (Completes(u) /\ call'[u].pc = "ok" /\ call[u].op = "respond" /\ call[u].acc)
       => \E k \in DOMAIN connections'[u] : connections'[u][k] = call[u].peer]_vars

\* the requests of a collection that are not between a and b
OtherReqs(s, a, b) == SelectSeq(s, LAMBDA r : {r.fromId, r.toId} # {a, b})

C12_RemovedStaysOut ==
  \A u \in Users :
    (call[u].op = "remove" /\ call[u].pc = "ok") => ~FindLocal(u, call[u].peer)

\* C13: removeConnection(peer) by u throws NotFound, changing nothing, exactly
\* when the stored profile of u holds no reference to the peer.
C13_RemoveNotFound ==
  [][\A u \in Users :
       Starts(u, "remove") =>
         /\ (call'[u].err = "NotFound") <=> ~HasRef(u, call'[u].peer)
         /\ call'[u].err = "NotFound" => (reqs' = reqs /\ userDocs' = userDocs)]_vars
PassEnds(u, p) == p \in passes[u] /\ passes'[u] = passes[u] \ {p}

\* C15: a resolution pass in which some peer fetches have failed still ends
\* by setting the local list, which then holds exactly the references of the
\* snapshot whose fetch did not fail, in the snapshot's order.
C15_PartialResolution ==
  [][\A u \in Users : \A p \in passes[u] :
       PassEnds(u, p) =>
         /\ \A id \in Users :
              FindLocal(u, id)' <=>
                (id \notin p.failed /\ \E i \in DOMAIN p.ids : p.ids[i] = id)
         /\ Len(connections'[u]) = Cardinality({i \in DOMAIN p.ids : p.ids[i] \notin p.failed})]_vars

\* the local list holds one of two stored references: the fetch of the other
\* peer failed in the pass that has just set the list
C15_Witness ==
  \E u \in Users : \E p, q \in Users \ {u} :
    /\ p # q
    /\ HasRef(u, p) /\ HasRef(u, q)
    /\ passes[u] = {} /\ ~dirty[u]
    /\ connections[u] = <<q>>
ContainsCI(field, partial) ==
  /\ field # Undefined
  /\ \E k \in 0..(Len(field) - Len(partial)) :
       \A j \in 1..Len(partial) : LowerCh(field[k + j]) = LowerCh(partial[j])

\* the profiles of the store, other than the caller's, that match the input
Matching ==
  {i \in DOMAIN search.store :
     /\ i # search.caller
     /\ \/ ContainsCI(search.store[i].email, search.partial)
        \/ ContainsCI(search.store[i].displayName, search.partial)}

\* C17: a search that returns gives the empty list for an input shorter than
\* 3 characters; for a longer one it gives at most 5 profiles, all of them
\* matching profiles of the store other than the caller's, none twice, and
\* all the matching ones when there are at most 5.
C17_Search ==
  (search.pc = "done") =>
    LET res == search.result
        ids == {res[i].id : i \in DOMAIN res}
    IN  /\ Len(search.partial) < 3 => res = <<>>
        /\ Len(res) <= 5
        /\ ids \subseteq Matching
        /\ Cardinality(ids) = Len(res)
        /\ \A i \in DOMAIN res :
             /\ res[i].email = search.store[res[i].id].email
             /\ res[i].displayName = search.store[res[i].id].displayName
        /\ (Len(search.partial) >= 3 /\ Cardinality(Matching) <= 5) => ids = Matching

\* five profiles returned where six others match, the caller's own profile
\* matches too, and one of those returned matches by its display name only,
\* in another letter case
C17_Witness ==
  /\ search.pc = "done"
  /\ Len(search.result) = 5
  /\ Cardinality(Matching) = 6
  /\ search.caller # 0
  /\ ContainsCI(search.store[search.caller].email, search.partial)
  /\ \E i \in DOMAIN search.result :
       /\ search.result[i].email # Undefined
       /\ ~ContainsCI(search.result[i].email, search.partial)
       /\ ~Includes(search.result[i].displayName, search.partial)
\* C18: at most one repeating trigger is armed.
C18_OneTrigger == Cardinality(sampler.timers) <= 1

\* C19: once stopTrackingLocation has been called and the provider has
\* rendered, no trigger is armed and isTracking is false; a call made while
\* nothing runs leaves the sampler as it was.
C19_StopDisarms ==
  /\ []((sampler.stopped /\ NoPending) => (sampler.timers = {} /\ ~sampler.isTracking))
  /\ [][(/\ sampler.pending.tracking # "false" /\ sampler'.pending.tracking = "false"
         /\ sampler.timers = {} /\ ~sampler.isTracking /\ sampler.interval = 0)
        => /\ sampler'.timers = {}
           /\ sampler'.pending.interval \in {-1, 0}
           /\ sampler'.samples = sampler.samples]_vars

\* C20: while nobody is signed in (and the provider has rendered) no trigger
\* is armed, and no sample begun for a user who is not signed in issues a
\* write of that user's location.
C20_NoWritesAfterLogout ==
  /\ []((sampler.user = "none" /\ NoPending) => sampler.timers = {})
  /\ [][\A m \in sampler'.samples \ sampler.samples : m.pc = "write" => ~m.late]_vars
\* the latest step was a sample that failed
SampleFailed ==
  \/ sampler'.outcome = "unsupported" /\ sampler.outcome # "unsupported"
  \/ /\ sampler'.samples # sampler.samples
     /\ sampler'.outcome \in {"position", "write"}

\* C22: a sample that fails (no geolocation, no fix, write rejected) leaves
\* the armed triggers, isTracking and the queued updates as they were, and
\* whenever a trigger is armed its next tick can run.
C22_FailuresKeepTrigger ==
  /\ [][SampleFailed =>
          /\ sampler'.timers = sampler.timers
          /\ sampler'.isTracking = sampler.isTracking
          /\ sampler'.interval = sampler.interval
          /\ sampler'.pending = sampler.pending]_vars
  /\ [](sampler.timers # {} => ENABLED Tick)

\* tracking is on with its trigger armed after a write was rejected, and a
\* new sample is under way
C22_Witness ==
  /\ sampler.outcome = "write"
  /\ sampler.isTracking /\ NoPending
  /\ \E t \in sampler.timers : t.id = sampler.interval
  /\ \E m \in sampler.samples : m.pc = "position"

\* C23: a fix is published at once; a rejected write leaves the published
\* fix and the stored locations as they were and does not stop the sampler;
\* a sample without a fix changes neither the published nor a stored location.
C23_FixPublished ==
  [][/\ (sampler'.outcome = "fixed" /\ sampler'.samples # sampler.samples)
          => /\ sampler'.currentLocation # 0
             /\ sampler'.currentLocation # sampler.currentLocation
             /\ \A m \in sampler'.samples \ sampler.samples : m.fix = sampler'.currentLocation
     /\ SampleFailed
          => /\ sampler'.currentLocation = sampler.currentLocation
             /\ sampler'.stored = sampler.stored
             /\ sampler'.timers = sampler.timers]_vars

\* the published fix is one whose write was rejected: the profile of the
\* signed-in user does not hold it
C23_Witness ==
  /\ sampler.outcome = "write"
  /\ sampler.user # "none"
  /\ sampler.currentLocation # 0
  /\ sampler.samples = {}
  /\ sampler.stored[sampler.user] # sampler.currentLocation
\* C30: while a user is signed out, the local connections list of that
\* client is empty.
C30_SignOutClearsView == \A u \in Users : ~session[u].in => connections[u] = <<>>
\* C21: a signed-out client has released each of its two listeners exactly
\* once, and a step of the client's operation or snapshot handler taken while
\* its user is signed out writes nothing to the store.
C21_NoWritesAfterUnsubscribe ==
  /\ [](\A u \in Users : ~session[u].in =>
          /\ session[u].profile = "off" /\ session[u].requests = "off"
          /\ session[u].released = [profile |-> 1, requests |-> 1])
  /\ [][\A u \in Users :
          (~session[u].in /\ ~session'[u].in
             /\ (call'[u] # call[u] \/ passes'[u] # passes[u]))
          => (reqs' = reqs /\ userDocs' = userDocs)]_vars
\* C28: an accept that throws leaves the status of its request as it was;
\* and while no operation is in flight, a request is accepted only if its
\* sender and its recipient hold a reference to each other.
C28_AcceptAllOrNothing ==
  /\ [][\A u \in Users :
          (Completes(u) /\ call[u].op = "respond" /\ call[u].acc /\ call'[u].pc = "err"
             /\ call[u].rid \in DOMAIN reqs')
          => reqs'[call[u].rid].status = call[u].was]_vars
  /\ [](Quiescent =>
          \A i \in DOMAIN reqs : reqs[i].status = "accepted" =>
             (HasRef(reqs[i].fromId, reqs[i].toId) /\ HasRef(reqs[i].toId, reqs[i].fromId)))
\* no operation is in flight and u's client has no snapshot due and no
\* handler run open
Settled(u) == Quiescent /\ ~dirty[u] /\ passes[u] = {}

\* C24: once everything has settled for a client, its local list holds
\* exactly the peer ids of its user's stored connection set.
C24_ViewConverges ==
  \A u \in Users :
    Settled(u) =>
      {connections[u][i] : i \in DOMAIN connections[u]}
        = {ConnsOf(userDocs[u])[i].id : i \in DOMAIN ConnsOf(userDocs[u])}
\* C29: no client's local list holds the same peer id twice.
C29_NoDuplicateEntries ==
  \A u \in Users : \A i, j \in DOMAIN connections[u] :
    connections[u][i] = connections[u][j] => i = j

\* the pending requests between two users, in either direction
PendingOf(a, b) ==
  {i \in ReqsBetween(a, b) \cup ReqsBetween(b, a) : reqs[i].status = "pending"}

\* C26: in every reachable state of concurrent calls there is at most one
\* pending request between any two users, whichever of them sent it.
C26_OnePendingPerPair ==
  \A a, b \in Users : Cardinality(PendingOf(a, b)) <= 1


\* C27: a reference to t leaves x's stored connection set only in a step of
\* a removeConnection between x and t; a remove between two users, and the
\* handler's write of an empty list, erase no reference to a third user.
C27_RemovedOnlyBetweenTheTwo ==
  [][\A x, t \in Users :
       (HasRef(x, t) /\ ~HasRefNext(x, t)) =>
         \E u \in Users : /\ call[u].op = "remove" /\ call'[u] # call[u]
                          /\ {u, call[u].peer} = {x, t}]_vars


\* the location that u's local entry for p shows is the one p's profile holds
ShowsStored(u, p) == notes.location[u][p] = sampler.stored[p]

\* u's local list holds one entry for the peer p
OneEntry(u, p) == Cardinality({i \in DOMAIN connections[u] : connections[u][i] = p}) = 1

\* C25: once everything has settled for a client, the entry of its local
\* list for a peer shows the location that the peer's profile holds, whether
\* or not the client's own profile changed after the peer's.
C25_ViewFollowsPeers ==
  \A u, p \in Pair : (Settled(u) /\ OneEntry(u, p)) => ShowsStored(u, p)

====
